---------------------------- MODULE Spec2Model ----------------------------
(***************************************************************************)
(* Model of src/app.py: the Streamlit dashboard "Hospitales Peru".         *)
(*                                                                         *)
(* The state is the three remote sources (IPRESS.csv, DISTRITOS.shp,       *)
(* CCPP_0.zip), the st.cache_data stores of the five memoized functions,   *)
(* the script's top-level variables (df, maps, CCPP, dataset,              *)
(* proximity_results) and the position of the script run.                  *)
(*                                                                         *)
(* A DataFrame is a sequence of row records; every row carries its pandas  *)
(* index label in the field "index".  A cell holding a code is a tagged    *)
(* value: an integer, a string (a sequence of characters) or NaN.          *)
(***************************************************************************)
EXTENDS Integers, Sequences, FiniteSets, TLC

VARIABLES
    src_csv,            \* rows of the remote IPRESS.csv
    src_shp,            \* rows of the remote DISTRITOS.shp
    src_ccpp,           \* rows of the remote CCPP_0.zip
    cache,              \* st.cache_data: one store per memoized function
    fetches,            \* completed downloads per loader
    first,              \* first result each loader returned (history)
    pc,                 \* position of the script run
    error,              \* exception raised in the current script run
    df,                 \* script variable df (line 180)
    maps,               \* script variable maps (line 181)
    CCPP,               \* script variable CCPP (line 182)
    dataset,            \* script variable dataset (line 183)
    proximity_results,  \* script variable proximity_results (line 461)
    frame               \* locals of the last executed body of proximity_analysis

vars == <<src_csv, src_shp, src_ccpp, cache, fetches, first, pc, error,
          df, maps, CCPP, dataset, proximity_results, frame>>

(***************************************************************************)
(* Bounds of the model.                                                    *)
(***************************************************************************)
MaxRawRows == 2      \* rows of IPRESS.csv when every column varies
MaxHospitals == 3    \* rows of IPRESS.csv when only the code varies
MaxRegions == 3      \* rows of DISTRITOS.shp
MaxCenters == 4      \* rows of CCPP_0.zip
MaxCoord == 1        \* largest geographic coordinate of a center
MaxFetch == 2        \* cap of the download counters

(***************************************************************************)
(* Optional values: <<>> is None, <<v>> is a value.                        *)
(***************************************************************************)
None == <<>>
Some(v) == <<v>>

Min(a, b) == IF a <= b THEN a ELSE b
Max(a, b) == IF a >= b THEN a ELSE b

(***************************************************************************)
(* Cell values and the pandas conversions on them.                         *)
(***************************************************************************)
IntV(n) == [t |-> "int", v |-> n]
StrV(s) == [t |-> "str", v |-> s]
NaN == [t |-> "nan", v |-> 0]

DigitChars == <<"0", "1", "2", "3", "4", "5", "6", "7", "8", "9">>

DigitVal(c) == CHOOSE d \in 0..9 : DigitChars[d + 1] = c

\* Python str(n) of a non-negative integer: its decimal digits.
RECURSIVE ToStr(_)
ToStr(n) == IF n < 10 THEN <<DigitChars[n + 1]>>
            ELSE Append(ToStr(n \div 10), DigitChars[(n % 10) + 1])

\* Python int(s) of a string of decimal digits.
RECURSIVE ParseInt(_)
ParseInt(s) == IF Len(s) = 0 THEN 0
               ELSE 10 * ParseInt(SubSeq(s, 1, Len(s) - 1)) + DigitVal(s[Len(s)])

RECURSIVE Zeros(_)
Zeros(k) == IF k <= 0 THEN <<>> ELSE <<"0">> \o Zeros(k - 1)

\* Series.astype(str)
astype_str(x) == IF x.t = "int" THEN StrV(ToStr(x.v)) ELSE x

\* Series.astype(int)
astype_int(x) == IF x.t = "str" THEN IntV(ParseInt(x.v)) ELSE x

\* Series.str.zfill(width): pads on the left, never truncates.
zfill(x, width) == StrV(Zeros(width - Len(x.v)) \o x.v)

\* Series.str[:k]
str_slice(x, k) == SubSeq(x.v, 1, Min(k, Len(x.v)))

(***************************************************************************)
(* load_hospital_data (lines 40-69).                                       *)
(***************************************************************************)
EN_FUNCIONAMIENTO == "EN FUNCIONAMIENTO"
ATENCION_GENERAL == "HOSPITALES O CLINICAS DE ATENCION GENERAL"
ATENCION_ESPECIALIZADA == "HOSPITALES O CLINICAS DE ATENCION ESPECIALIZADA"

\* pd.read_csv: one row per record, RangeIndex 0..n-1.
pd_read_csv(src) ==
    [i \in 1..Len(src) |->
        [index |-> i - 1,
         Condicion |-> src[i].Condicion,
         NORTE |-> src[i].NORTE,
         ESTE |-> src[i].ESTE,
         Clasificacion |-> src[i].Clasificacion,
         UBIGEO |-> src[i].UBIGEO]]

\* df[df["Condicion"] == "EN FUNCIONAMIENTO"]
filter_condicion(t) == SelectSeq(t, LAMBDA r : r.Condicion = EN_FUNCIONAMIENTO)

\* df.dropna(subset=["NORTE", "ESTE"])
dropna_coords(t) == SelectSeq(t, LAMBDA r : r.NORTE.t # "nan" /\ r.ESTE.t # "nan")

\* x != 0 on a numeric cell (NaN != 0 is True).
ne_zero(x) == ~(x.t = "int" /\ x.v = 0)

\* Variant of the filter below with | in place of &: only (0,0) is dropped.
filter_nonzero_either(t) == SelectSeq(t, LAMBDA r : ne_zero(r.NORTE) \/ ne_zero(r.ESTE))

\* df[(df["NORTE"] != 0) & (df["ESTE"] != 0)]
filter_nonzero(t) == SelectSeq(t, LAMBDA r : ne_zero(r.NORTE) /\ ne_zero(r.ESTE))

\* df[df["Clasificacion"].isin([...])]
filter_clasificacion(t) ==
    SelectSeq(t, LAMBDA r : r.Clasificacion \in {ATENCION_GENERAL, ATENCION_ESPECIALIZADA})

\* Variant of the assignment below that cuts the code to six characters.
fix_ubigeo_truncated(t) ==
    [i \in 1..Len(t) |->
        [t[i] EXCEPT !.UBIGEO = StrV(SubSeq(zfill(astype_str(@), 6).v, 1, 6))]]

\* df['UBIGEO'] = df['UBIGEO'].astype(str).str.zfill(6)
fix_ubigeo(t) ==
    [i \in 1..Len(t) |-> [t[i] EXCEPT !.UBIGEO = zfill(astype_str(@), 6)]]

\* The function body, given the downloaded rows.
load_hospital_data_body(src) ==
    fix_ubigeo(filter_clasificacion(filter_nonzero(dropna_coords(
        filter_condicion(pd_read_csv(src))))))


(***************************************************************************)
(* Geometry.  A geometry is an axis-parallel box [x1,x2] x [y1,y2] tagged  *)
(* with its coordinate reference; a Point is the box with x1 = x2 and      *)
(* y1 = y2.  EPSG:4326 coordinates are whole geographic units and the      *)
(* projection to EPSG:32718 is taken as linear, MetresPerUnit metres per   *)
(* unit.  geometry.buffer(r) of a point is the disc of radius r; shapely   *)
(* returns its inscribed 64-gon, which has the same lattice points as the  *)
(* disc when MetresPerUnit = 5000.                                         *)
(***************************************************************************)
EPSG_4326 == 4326
EPSG_32718 == 32718
MetresPerUnit == 5000
BufferRadius == 10000

Box(crs, x1, y1, x2, y2) == [crs |-> crs, x1 |-> x1, y1 |-> y1, x2 |-> x2, y2 |-> y2]
Point(crs, x, y) == Box(crs, x, y, x, y)

\* GeoSeries.to_crs on one geometry.
to_crs(g, epsg) ==
    IF g.crs = epsg THEN g
    ELSE IF epsg = EPSG_32718
         THEN Box(epsg, g.x1 * MetresPerUnit, g.y1 * MetresPerUnit,
                        g.x2 * MetresPerUnit, g.y2 * MetresPerUnit)
         ELSE Box(epsg, g.x1 \div MetresPerUnit, g.y1 \div MetresPerUnit,
                        g.x2 \div MetresPerUnit, g.y2 \div MetresPerUnit)

\* GeoDataFrame.to_crs: the geometry column of every row.
table_to_crs(t, epsg) ==
    [i \in 1..Len(t) |-> [t[i] EXCEPT !.geometry = to_crs(@, epsg)]]

\* geometry.buffer(r) of a point.
buffer(g, r) == [crs |-> g.crs, cx |-> g.x1, cy |-> g.y1, r |-> r]

\* Distance from c to the interval [lo, hi] on one axis.
AxisGap(c, lo, hi) == IF c < lo THEN lo - c ELSE IF c > hi THEN c - hi ELSE 0

\* geometry.intersects(buffer): the boundary belongs to both.
intersects(g, b) ==
    LET dx == AxisGap(b.cx, g.x1, g.x2)
        dy == AxisGap(b.cy, g.y1, g.y2)
    IN  dx * dx + dy * dy <= b.r * b.r

(***************************************************************************)
(* load_district_shapefile (lines 71-87) and load_population_centers       *)
(* (lines 89-95).                                                          *)
(***************************************************************************)
\* maps[['IDDIST','geometry']], rename, astype(str).astype(int), to_crs.
load_district_shapefile_body(src) ==
    [i \in 1..Len(src) |->
        [index |-> i - 1,
         UBIGEO |-> astype_int(astype_str(src[i].IDDIST)),
         geometry |-> to_crs(src[i].geometry, EPSG_4326)]]

\* gpd.read_file, to_crs("EPSG:4326").
load_population_centers_body(src) ==
    [i \in 1..Len(src) |->
        [index |-> i - 1,
         DEP |-> src[i].DEP,
         geometry |-> to_crs(src[i].geometry, EPSG_4326)]]

(***************************************************************************)
(* create_district_dataset (lines 100-114).                                *)
(***************************************************************************)
\* Number of rows of t whose UBIGEO cell equals x.
CountOf(t, x) == Cardinality({i \in 1..Len(t) : t[i].UBIGEO = x})

\* The distinct UBIGEO cells of t, in order of first appearance.
RECURSIVE Distinct(_)
Distinct(t) ==
    IF Len(t) = 0 THEN <<>>
    ELSE LET init == Distinct(SubSeq(t, 1, Len(t) - 1))
             x == t[Len(t)].UBIGEO
         IN  IF \E i \in 1..Len(init) : init[i] = x THEN init ELSE Append(init, x)

\* Stable insertion of row r into a table sorted by descending Frecuencia.
RECURSIVE InsertDesc(_, _)
InsertDesc(t, r) ==
    IF Len(t) = 0 THEN <<r>>
    ELSE IF t[Len(t)].Frecuencia.v >= r.Frecuencia.v THEN Append(t, r)
    ELSE Append(InsertDesc(SubSeq(t, 1, Len(t) - 1), r), t[Len(t)])

RECURSIVE SortDesc(_)
SortDesc(t) ==
    IF Len(t) = 0 THEN <<>>
    ELSE InsertDesc(SortDesc(SubSeq(t, 1, Len(t) - 1)), t[Len(t)])

\* Variant of value_counts below that counts every code once.
value_counts_ones(t) ==
    LET keys == Distinct(t)
    IN  SortDesc([k \in 1..Len(keys) |->
                    [UBIGEO |-> keys[k], Frecuencia |-> IntV(1)]])

\* df['UBIGEO'].value_counts().reset_index(), columns UBIGEO, Frecuencia.
value_counts(t) ==
    LET keys == Distinct(t)
    IN  SortDesc([k \in 1..Len(keys) |->
                    [UBIGEO |-> keys[k], Frecuencia |-> IntV(CountOf(t, keys[k]))]])

\* Variant of the assignment below that converts to str.
ubigeo_astype_str(t) ==
    [i \in 1..Len(t) |-> [t[i] EXCEPT !.UBIGEO = astype_str(@)]]

\* table["UBIGEO"] = table["UBIGEO"].astype(int)
ubigeo_astype_int(t) ==
    [i \in 1..Len(t) |-> [t[i] EXCEPT !.UBIGEO = astype_int(@)]]

\* The rows pd.merge(how="left") emits for one left row.
MergeRow(l, right) ==
    LET hits == SelectSeq(right, LAMBDA r : r.UBIGEO = l.UBIGEO)
    IN  IF Len(hits) = 0
        THEN <<[UBIGEO |-> l.UBIGEO, geometry |-> l.geometry, Frecuencia |-> NaN]>>
        ELSE [k \in 1..Len(hits) |->
                [UBIGEO |-> l.UBIGEO, geometry |-> l.geometry,
                 Frecuencia |-> hits[k].Frecuencia]]

\* The rows pd.merge(how="inner") emits for one left row.
MergeRowInner(l, right) ==
    LET hits == SelectSeq(right, LAMBDA r : r.UBIGEO = l.UBIGEO)
    IN  [k \in 1..Len(hits) |->
            [UBIGEO |-> l.UBIGEO, geometry |-> l.geometry,
             Frecuencia |-> hits[k].Frecuencia]]

RECURSIVE merge_inner(_, _)
merge_inner(left, right) ==
    IF Len(left) = 0 THEN <<>>
    ELSE merge_inner(SubSeq(left, 1, Len(left) - 1), right)
            \o MergeRowInner(left[Len(left)], right)

\* pd.merge(left, right, how="left", on="UBIGEO"): left order is kept.
RECURSIVE merge_left(_, _)
merge_left(left, right) ==
    IF Len(left) = 0 THEN <<>>
    ELSE merge_left(SubSeq(left, 1, Len(left) - 1), right)
            \o MergeRow(left[Len(left)], right)

\* dataset["Frecuencia"].fillna(0).astype(int), and the fresh RangeIndex.
fillna_frecuencia(t) ==
    [i \in 1..Len(t) |->
        [index |-> i - 1,
         UBIGEO |-> t[i].UBIGEO,
         geometry |-> t[i].geometry,
         Frecuencia |-> IF t[i].Frecuencia.t = "nan" THEN IntV(0) ELSE t[i].Frecuencia]]

\* The function body: the returned dataset, and _maps as the body leaves it
\* (line 108 assigns its UBIGEO column in place).
create_district_dataset_body(m, d) ==
    LET tabla_freq == ubigeo_astype_int(value_counts(d))
        m2 == ubigeo_astype_int(m)
    IN  [dataset |-> fillna_frecuencia(merge_left(m2, tabla_freq)),
         maps |-> m2]

(***************************************************************************)
(* proximity_analysis (lines 129-174).                                     *)
(***************************************************************************)
\* _CCPP[_CCPP["DEP"].isin(["LIMA", "LORETO"])], reprojected (lines 133, 137).
centros_filter(c) ==
    table_to_crs(SelectSeq(c, LAMBDA r : r.DEP \in {"LIMA", "LORETO"}), EPSG_32718)

\* _maps[_maps["UBIGEO"].astype(str).str[:2].isin(['15','16'])], reprojected
\* (lines 134, 138).
hosp_filter(m) ==
    table_to_crs(
        SelectSeq(m, LAMBDA r :
            str_slice(astype_str(r.UBIGEO), 2) \in {<<"1", "5">>, <<"1", "6">>}),
        EPSG_32718)

\* hosp_sel[hosp_sel.intersects(buffer)]
within(hosp_sel, b) == SelectSeq(hosp_sel, LAMBDA h : intersects(h.geometry, b))

\* centros_sel after line 150: the columns buffer_10km and Hosp_10km added.
centros_counted(c, m) ==
    LET cs == centros_filter(c)
        hs == hosp_filter(m)
    IN  [i \in 1..Len(cs) |->
            [index |-> cs[i].index,
             DEP |-> cs[i].DEP,
             geometry |-> cs[i].geometry,
             buffer_10km |-> buffer(cs[i].geometry, BufferRadius),
             Hosp_10km |-> Len(within(hs, buffer(cs[i].geometry, BufferRadius)))]]

\* Variant of the selection below that keeps every row.
partition_all(t, dep) == t

\* centros_sel[centros_sel["DEP"] == dep]
partition(t, dep) == SelectSeq(t, LAMBDA r : r.DEP = dep)

\* Variant of idxmin below that returns the last row holding the minimum.
idxmin_last(t) ==
    LET i == CHOOSE i \in 1..Len(t) :
                /\ \A j \in 1..Len(t) : t[i].Hosp_10km <= t[j].Hosp_10km
                /\ \A j \in (i + 1)..Len(t) : t[j].Hosp_10km # t[i].Hosp_10km
    IN  t[i].index

\* Series.idxmin / idxmax: the label of the first row holding the extremum.
idxmin(t) ==
    LET i == CHOOSE i \in 1..Len(t) :
                /\ \A j \in 1..Len(t) : t[i].Hosp_10km <= t[j].Hosp_10km
                /\ \A j \in 1..(i - 1) : t[j].Hosp_10km # t[i].Hosp_10km
    IN  t[i].index
idxmax(t) ==
    LET i == CHOOSE i \in 1..Len(t) :
                /\ \A j \in 1..Len(t) : t[i].Hosp_10km >= t[j].Hosp_10km
                /\ \A j \in 1..(i - 1) : t[j].Hosp_10km # t[i].Hosp_10km
    IN  t[i].index

\* DataFrame.loc[label]
loc(t, label) == t[CHOOSE i \in 1..Len(t) : t[i].index = label]

\* idxmin of an empty Series raises ValueError (lines 158-161).
proximity_raises(c, m) ==
    \/ Len(partition(centros_counted(c, m), "LIMA")) = 0
    \/ Len(partition(centros_counted(c, m), "LORETO")) = 0

\* Line 172: the selected row, its geometry back in EPSG:4326.
center_to_4326(row) == [row EXCEPT !.geometry = to_crs(@, EPSG_4326)]

\* The returned dict (lines 157-174), when no partition is empty.
proximity_results_of(c, m) ==
    LET cs == centros_counted(c, m)
        hs == hosp_filter(m)
        lima == partition(cs, "LIMA")
        loreto == partition(cs, "LORETO")
        a_lima == loc(lima, idxmin(lima))
        c_lima == loc(lima, idxmax(lima))
        a_loreto == loc(loreto, idxmin(loreto))
        c_loreto == loc(loreto, idxmax(loreto))
    IN  [aislado_lima |-> center_to_4326(a_lima),
         concentrado_lima |-> center_to_4326(c_lima),
         aislado_loreto |-> center_to_4326(a_loreto),
         concentrado_loreto |-> center_to_4326(c_loreto),
         hosp_aislado_lima |-> table_to_crs(within(hs, a_lima.buffer_10km), EPSG_4326),
         hosp_concentrado_lima |-> table_to_crs(within(hs, c_lima.buffer_10km), EPSG_4326),
         hosp_aislado_loreto |-> table_to_crs(within(hs, a_loreto.buffer_10km), EPSG_4326),
         hosp_concentrado_loreto |-> table_to_crs(within(hs, c_loreto.buffer_10km), EPSG_4326)]

(***************************************************************************)
(* st.cache_data.  A store maps the key of a call to the cached result.    *)
(* The key of a call is built from the arguments whose parameter name does *)
(* not start with an underscore.                                           *)
(***************************************************************************)
EmptyStore == [k \in {} |-> None]

\* Parameters of the memoized functions: TRUE marks a leading underscore.
Params_loader == <<>>
Params_create_district_dataset == <<TRUE, FALSE>>       \* (_maps, df)
Params_proximity_analysis == <<TRUE, TRUE>>             \* (_CCPP, _maps)

RECURSIVE cache_key(_, _)
cache_key(params, args) ==
    IF Len(params) = 0 THEN <<>>
    ELSE LET rest == cache_key(SubSeq(params, 1, Len(params) - 1),
                               SubSeq(args, 1, Len(args) - 1))
         IN  IF params[Len(params)] THEN rest ELSE Append(rest, args[Len(args)])

\* Variant of the lookup below that always misses.
cache_get_never(store, key) == None

\* The cached result of a call, None on a miss.
cache_get(store, key) == IF key \in DOMAIN store THEN Some(store[key]) ELSE None

cache_put(store, key, value) ==
    [k \in (DOMAIN store) \cup {key} |-> IF k = key THEN value ELSE store[k]]

(***************************************************************************)
(* The memoized functions as operations.  Each sets the caller's variables *)
(* that receive its result, and "error" when it raises instead.            *)
(***************************************************************************)
Loaders == {"load_hospital_data", "load_district_shapefile", "load_population_centers"}
Functions == Loaders \cup {"create_district_dataset", "proximity_analysis"}

\* The first result a loader returned is kept for comparison.
Remember(f, r) == first' = IF first[f] = None THEN [first EXCEPT ![f] = r] ELSE first

\* load_hospital_data(), lines 40-69.  requests.get / raise_for_status may
\* raise; st.cache_data stores nothing then.
load_hospital_data ==
    LET f == "load_hospital_data"
        hit == cache_get(cache[f], cache_key(Params_loader, <<>>))
        run == load_hospital_data_body(src_csv)
    IN  IF hit # None
        THEN /\ df' = hit
             /\ error' = "none"
             /\ Remember(f, hit)
             /\ UNCHANGED <<cache, fetches>>
        ELSE \/ /\ fetches[f] < MaxFetch
                /\ df' = Some(run)
                /\ error' = "none"
                /\ cache' = [cache EXCEPT ![f] = cache_put(@, <<>>, run)]
                /\ fetches' = [fetches EXCEPT ![f] = @ + 1]
                /\ Remember(f, Some(run))
             \/ /\ df' = None
                /\ error' = "DataUnavailable"
                /\ UNCHANGED <<cache, fetches, first>>

\* load_district_shapefile(), lines 71-87.  A failed clone makes
\* gpd.read_file raise.
load_district_shapefile ==
    LET f == "load_district_shapefile"
        hit == cache_get(cache[f], cache_key(Params_loader, <<>>))
        run == load_district_shapefile_body(src_shp)
    IN  IF hit # None
        THEN /\ maps' = hit
             /\ error' = "none"
             /\ Remember(f, hit)
             /\ UNCHANGED <<cache, fetches>>
        ELSE \/ /\ fetches[f] < MaxFetch
                /\ maps' = Some(run)
                /\ error' = "none"
                /\ cache' = [cache EXCEPT ![f] = cache_put(@, <<>>, run)]
                /\ fetches' = [fetches EXCEPT ![f] = @ + 1]
                /\ Remember(f, Some(run))
             \/ /\ maps' = None
                /\ error' = "DataUnavailable"
                /\ UNCHANGED <<cache, fetches, first>>

\* load_population_centers(), lines 89-95.
load_population_centers ==
    LET f == "load_population_centers"
        hit == cache_get(cache[f], cache_key(Params_loader, <<>>))
        run == load_population_centers_body(src_ccpp)
    IN  IF hit # None
        THEN /\ CCPP' = hit
             /\ error' = "none"
             /\ Remember(f, hit)
             /\ UNCHANGED <<cache, fetches>>
        ELSE \/ /\ fetches[f] < MaxFetch
                /\ CCPP' = Some(run)
                /\ error' = "none"
                /\ cache' = [cache EXCEPT ![f] = cache_put(@, <<>>, run)]
                /\ fetches' = [fetches EXCEPT ![f] = @ + 1]
                /\ Remember(f, Some(run))
             \/ /\ CCPP' = None
                /\ error' = "DataUnavailable"
                /\ UNCHANGED <<cache, fetches, first>>

\* create_district_dataset(_maps, df), lines 100-114, called with the
\* tables m and d.  The caller's maps is the object line 108 assigns into.
create_district_dataset(m, d) ==
    LET f == "create_district_dataset"
        key == cache_key(Params_create_district_dataset, <<m, d>>)
        hit == cache_get(cache[f], key)
        run == create_district_dataset_body(m, d)
    IN  /\ df' = Some(d)
        /\ error' = "none"
        /\ IF hit # None
           THEN /\ dataset' = hit
                /\ maps' = Some(m)
                /\ UNCHANGED cache
           ELSE /\ dataset' = Some(run.dataset)
                /\ maps' = Some(run.maps)
                /\ cache' = [cache EXCEPT ![f] = cache_put(@, key, run.dataset)]

\* proximity_analysis(_CCPP, _maps), lines 129-174, called with the tables
\* c and m.
proximity_analysis(c, m) ==
    LET f == "proximity_analysis"
        key == cache_key(Params_proximity_analysis, <<c, m>>)
        hit == cache_get(cache[f], key)
    IN  /\ CCPP' = Some(c)
        /\ maps' = Some(m)
        /\ IF hit # None
           THEN /\ proximity_results' = hit
                /\ error' = "none"
                /\ UNCHANGED <<cache, frame>>
           ELSE /\ frame' = Some([centros_sel |-> centros_counted(c, m),
                                  hosp_sel |-> hosp_filter(m)])
                /\ IF proximity_raises(c, m)
                   THEN /\ proximity_results' = None
                        /\ error' = "ValueError"
                        /\ UNCHANGED cache
                   ELSE /\ proximity_results' = Some(proximity_results_of(c, m))
                        /\ error' = "none"
                        /\ cache' = [cache EXCEPT
                                        ![f] = cache_put(@, key, proximity_results_of(c, m))]

(***************************************************************************)
(* The script (lines 179-184 and 461).  Streamlit runs it top to bottom    *)
(* on every interaction; an exception ends the run.  The stores of         *)
(* st.cache_data outlive the runs.                                         *)
(***************************************************************************)
After(next) == pc' = IF error' = "none" THEN next ELSE "aborted"

Step180 ==
    /\ pc = "l180"
    /\ load_hospital_data
    /\ After("l181")
    /\ UNCHANGED <<src_csv, src_shp, src_ccpp, maps, CCPP, dataset,
                   proximity_results, frame>>

Step181 ==
    /\ pc = "l181"
    /\ load_district_shapefile
    /\ After("l182")
    /\ UNCHANGED <<src_csv, src_shp, src_ccpp, df, CCPP, dataset,
                   proximity_results, frame>>

Step182 ==
    /\ pc = "l182"
    /\ load_population_centers
    /\ After("l183")
    /\ UNCHANGED <<src_csv, src_shp, src_ccpp, df, maps, dataset,
                   proximity_results, frame>>

Step183 ==
    /\ pc = "l183"
    /\ create_district_dataset(maps[1], df[1])
    /\ After("l461")
    /\ UNCHANGED <<src_csv, src_shp, src_ccpp, fetches, first, CCPP,
                   proximity_results, frame>>

Step461 ==
    /\ pc = "l461"
    /\ proximity_analysis(CCPP[1], maps[1])
    /\ After("done")
    /\ UNCHANGED <<src_csv, src_shp, src_ccpp, fetches, first, df, dataset>>

\* A widget interaction: the script starts again with fresh variables.
Rerun ==
    /\ pc \in {"done", "aborted"}
    /\ pc' = "l180"
    /\ error' = "none"
    /\ df' = None
    /\ maps' = None
    /\ CCPP' = None
    /\ dataset' = None
    /\ proximity_results' = None
    /\ UNCHANGED <<src_csv, src_shp, src_ccpp, cache, fetches, first, frame>>

\* One run of the script, and any number of runs.
NextOnce == Step180 \/ Step181 \/ Step182 \/ Step183 \/ Step461

NextRun == NextOnce \/ Rerun

(***************************************************************************)
(* The remote sources the model draws from.                                *)
(***************************************************************************)
SeqsUpTo(S, n) == UNION {[1..k -> S] : k \in 0..n}

CsvRow(cond, norte, este, clas, code) ==
    [Condicion |-> cond, NORTE |-> norte, ESTE |-> este,
     Clasificacion |-> clas, UBIGEO |-> IntV(code)]

\* An operating general hospital at (este, norte) units, in EPSG:32718 metres.
Hospital(code, este, norte) ==
    CsvRow(EN_FUNCIONAMIENTO, IntV(norte * MetresPerUnit), IntV(este * MetresPerUnit),
           ATENCION_GENERAL, code)

\* Rows of IPRESS.csv in which every filtered column varies.
RawRows ==
    {CsvRow(cond, norte, este, clas, 150101) :
        cond \in {EN_FUNCIONAMIENTO, "CIERRE TEMPORAL"},
        norte \in {NaN, IntV(0), IntV(MetresPerUnit)},
        este \in {NaN, IntV(0), IntV(MetresPerUnit)},
        clas \in {ATENCION_GENERAL, ATENCION_ESPECIALIZADA,
                  "PUESTOS DE SALUD O POSTAS DE SALUD"}}

\* Codes of the UBIGEO column as pd.read_csv reads them (integers: leading
\* zeros are lost), and one longer than six digits.
Codes == {1501, 80101, 150101, 160101, 1501010}

CodeRows == {Hospital(code, 1, 1) : code \in Codes}

District(iddist, x1, y1, x2, y2) ==
    [IDDIST |-> StrV(iddist), geometry |-> Box(EPSG_4326, x1, y1, x2, y2)]

\* Rows of DISTRITOS.shp: IDDIST is a six-character string.
DistrictRows ==
    {District(<<"0", "8", "0", "1", "0", "1">>, 1, 0, 1, 0),
     District(<<"1", "5", "0", "1", "0", "1">>, 2, 1, 2, 1),
     District(<<"1", "5", "0", "1", "0", "2">>, 0, 2, 0, 2),
     District(<<"1", "6", "0", "1", "0", "1">>, 4, 0, 5, 1)}

\* IDDIST identifies a district: no two rows of the shapefile share it.
DistrictTables ==
    {t \in SeqsUpTo(DistrictRows, MaxRegions) :
        \A i, j \in 1..Len(t) : t[i].IDDIST = t[j].IDDIST => i = j}

Center(dep, x, y) == [DEP |-> dep, geometry |-> Point(EPSG_4326, x, y)]

CenterRows == {Center(dep, x, 0) : dep \in {"LIMA", "LORETO", "CUSCO"}, x \in 0..MaxCoord}

\* The sources of the full application model.
CsvLima == <<Hospital(150101, 1, 1), Hospital(150101, 2, 1), Hospital(160101, 4, 1)>>
CsvSmall ==
    {CsvLima,
     <<Hospital(80101, 1, 1), CsvRow(EN_FUNCIONAMIENTO, IntV(0), IntV(MetresPerUnit),
                                     ATENCION_GENERAL, 150102)>>}
ShpLima ==
    <<District(<<"1", "5", "0", "1", "0", "1">>, 2, 0, 2, 0),
      District(<<"1", "5", "0", "1", "0", "2">>, 1, 2, 1, 2),
      District(<<"1", "6", "0", "1", "0", "1">>, 3, 0, 4, 1)>>
ShpSmall ==
    {ShpLima,
     <<District(<<"0", "8", "0", "1", "0", "1">>, 1, 0, 1, 0),
       District(<<"1", "5", "0", "1", "0", "1">>, 4, 0, 4, 0)>>}
CcppBoth == <<Center("LIMA", 0, 0), Center("LORETO", 1, 0), Center("LIMA", 1, 0)>>
CcppSmall ==
    {CcppBoth,
     <<Center("LORETO", 0, 0), Center("LIMA", 1, 0)>>,
     <<Center("LIMA", 0, 0), Center("CUSCO", 1, 0)>>}

\* The state of a fresh process, given the sources.
Fresh(csv, shp, ccpp) ==
    /\ src_csv = csv
    /\ src_shp = shp
    /\ src_ccpp = ccpp
    /\ cache = [f \in Functions |-> EmptyStore]
    /\ fetches = [f \in Loaders |-> 0]
    /\ first = [f \in Loaders |-> None]
    /\ error = "none"
    /\ df = None
    /\ maps = None
    /\ CCPP = None
    /\ dataset = None
    /\ proximity_results = None
    /\ frame = None

(***************************************************************************)
(* The application: the script is the only caller, the sources may change  *)
(* upstream at any time.                                                   *)
(***************************************************************************)
Init ==
    /\ pc = "l180"
    /\ \E csv \in CsvSmall, shp \in ShpSmall, ccpp \in CcppSmall : Fresh(csv, shp, ccpp)

SourceChange ==
    /\ \/ src_csv' \in CsvSmall \ {src_csv} /\ UNCHANGED <<src_shp, src_ccpp>>
       \/ src_shp' \in ShpSmall \ {src_shp} /\ UNCHANGED <<src_csv, src_ccpp>>
       \/ src_ccpp' \in CcppSmall \ {src_ccpp} /\ UNCHANGED <<src_csv, src_shp>>
    /\ UNCHANGED <<cache, fetches, first, pc, error, df, maps, CCPP, dataset,
                   proximity_results, frame>>

Next == NextRun \/ SourceChange

Spec == Init /\ [][Next]_vars

(***************************************************************************)
(* load_hospital_data over every raw table of the registry (Cleaner).      *)
(***************************************************************************)
InitCleaner ==
    /\ pc = "l180"
    /\ \E csv \in SeqsUpTo(RawRows, MaxRawRows) : Fresh(csv, ShpLima, CcppBoth)

\* The calls of load_hospital_data alone.
NextCleaner == Step180 \/ Rerun

SpecCleaner == InitCleaner /\ [][NextCleaner]_vars

(***************************************************************************)
(* The application over every code column and region table (Aggregator).   *)
(***************************************************************************)
InitAggregator ==
    /\ pc = "l180"
    /\ \E csv \in SeqsUpTo(CodeRows, MaxHospitals), shp \in DistrictTables :
            Fresh(csv, shp, CcppBoth)

SpecAggregator == InitAggregator /\ [][NextRun]_vars

(***************************************************************************)
(* One script run over every table of population centers (proximity).     *)
(***************************************************************************)
InitProximity ==
    /\ pc = "l180"
    /\ \E shp \in ShpSmall, ccpp \in SeqsUpTo(CenterRows, MaxCenters) :
            Fresh(CsvLima, shp, ccpp)

SpecProximity == InitProximity /\ [][NextOnce]_vars

(***************************************************************************)
(* The memoized processing functions under any caller: every call passes   *)
(* tables of the caller's choice.                                          *)
(***************************************************************************)
RegionTables == {load_district_shapefile_body(s) : s \in ShpSmall}
FacilityTables == {load_hospital_data_body(s) : s \in CsvSmall}
CenterTables == {load_population_centers_body(s) : s \in CcppSmall}

InitCalls ==
    /\ pc = "api"
    /\ Fresh(<<>>, <<>>, <<>>)

\* pc names the call that has just ended.
CallCreate ==
    /\ \E m \in RegionTables, d \in FacilityTables : create_district_dataset(m, d)
    /\ pc' = "create_district_dataset"
    /\ UNCHANGED <<src_csv, src_shp, src_ccpp, fetches, first, CCPP,
                   proximity_results, frame>>

CallProximity ==
    /\ \E c \in CenterTables, m \in RegionTables : proximity_analysis(c, m)
    /\ pc' = "proximity_analysis"
    /\ UNCHANGED <<src_csv, src_shp, src_ccpp, fetches, first, df, dataset>>

NextCalls == CallCreate \/ CallProximity

SpecCalls == InitCalls /\ [][NextCalls]_vars

(***************************************************************************)
(* Properties of the Cleaner.                                              *)
(***************************************************************************)
Operating(r) == r.Condicion = EN_FUNCIONAMIENTO
Whitelisted(r) == r.Clasificacion \in {ATENCION_GENERAL, ATENCION_ESPECIALIZADA}
NonNull(r) == r.NORTE.t = "int" /\ r.ESTE.t = "int"
NeitherZero(r) == NonNull(r) /\ r.NORTE.v # 0 /\ r.ESTE.v # 0
NotOrigin(r) == NonNull(r) /\ ~(r.NORTE.v = 0 /\ r.ESTE.v = 0)

\* Row i of the raw table is a row of the Cleaner's output.
InOutput(i) == \E k \in 1..Len(df[1]) : df[1][k].index = i - 1

\* The three filters: 1 status, 2 coordinate validity, 3 type whitelist.
ApplyFilter(k, t) ==
    CASE k = 1 -> filter_condicion(t)
      [] k = 2 -> filter_nonzero(dropna_coords(t))
      [] k = 3 -> filter_clasificacion(t)

FilterOrders == {o \in [1..3 -> 1..3] : \A a, b \in 1..3 : o[a] = o[b] => a = b}

InOrder(o, t) == ApplyFilter(o[3], ApplyFilter(o[2], ApplyFilter(o[1], t)))

\* The output is the same whatever the order of the three filters.
OrderIndependent ==
    \A o \in FilterOrders : fix_ubigeo(InOrder(o, pd_read_csv(src_csv))) = df[1]

\* C1 as amended: a raw row is in the Cleaner's output iff it is operating,
\* both coordinates are non-null and neither coordinate is 0, and its class
\* is whitelisted; a row at (0,0) is never in the output; the output does not
\* depend on the order of the three filters.
C1_FilterIff ==
    df # None =>
        /\ \A i \in 1..Len(src_csv) :
                InOutput(i) <=> (/\ Operating(src_csv[i])
                                 /\ NeitherZero(src_csv[i])
                                 /\ Whitelisted(src_csv[i]))
        /\ \A k \in 1..Len(df[1]) : ~(df[1][k].NORTE.v = 0 /\ df[1][k].ESTE.v = 0)
        /\ OrderIndependent

\* C1 as stated: the coordinate predicate is "non-null and not (0,0)".
C1_FilterIffOrigin ==
    df # None =>
        \A i \in 1..Len(src_csv) :
            InOutput(i) <=> (/\ Operating(src_csv[i])
                             /\ NotOrigin(src_csv[i])
                             /\ Whitelisted(src_csv[i]))

\* The Cleaner has run on a table holding an operating whitelisted row with
\* exactly one zero coordinate, and a row it keeps.
C1_Witness ==
    /\ df # None
    /\ \E i \in 1..Len(src_csv) :
            /\ Operating(src_csv[i]) /\ Whitelisted(src_csv[i])
            /\ NotOrigin(src_csv[i]) /\ ~NeitherZero(src_csv[i])
    /\ Len(df[1]) >= 1

RECURSIVE Pow10(_)
Pow10(k) == IF k = 0 THEN 1 ELSE 10 * Pow10(k - 1)

\* Number of decimal digits of n.
NumDigits(n) == CHOOSE d \in 1..9 : n < Pow10(d) /\ (d = 1 \/ n >= Pow10(d - 1))

\* s is the decimal form of n, left-padded with zeros to six characters.
IsCanonical(n, s) ==
    /\ Len(s) = Max(6, NumDigits(n))
    /\ \A k \in 1..Len(s) : DigitVal(s[k]) = (n \div Pow10(Len(s) - k)) % 10

\* C6: every record of the Cleaner's output carries the decimal string of
\* its source code, left-padded with '0' to 6 characters and never
\* truncated; 150101 gives '150101' and 1501 gives '001501'.
C6_Canonical ==
    df # None =>
        \A k \in 1..Len(df[1]) :
            LET n == src_csv[df[1][k].index + 1].UBIGEO.v
                c == df[1][k].UBIGEO
            IN  /\ c.t = "str"
                /\ IsCanonical(n, c.v)
                /\ n = 150101 => c.v = <<"1", "5", "0", "1", "0", "1">>
                /\ n = 1501 => c.v = <<"0", "0", "1", "5", "0", "1">>

\* The output holds a padded code and a code longer than six characters.
C6_Witness ==
    /\ df # None
    /\ \E k \in 1..Len(df[1]) : src_csv[df[1][k].index + 1].UBIGEO.v = 1501
    /\ \E k \in 1..Len(df[1]) : Len(df[1][k].UBIGEO.v) = 7

(***************************************************************************)
(* Properties of the Aggregator.                                           *)
(***************************************************************************)
\* The six-character code of region row i, as the shapefile holds it.
RegionCode(i) == src_shp[maps[1][i].index + 1].IDDIST.v

\* The cleaned facility records whose canonical code is the string s.
FacilitiesWith(s) == {j \in 1..Len(df[1]) : df[1][j].UBIGEO.v = s}

\* C2: every key of the region table is in the per-district result exactly
\* once, with an integer count >= 0, which is 0 when no facility has the
\* key; no region is dropped and none is duplicated.
C2_LeftJoinComplete ==
    dataset # None =>
        /\ Len(dataset[1]) = Len(maps[1])
        /\ \A i \in 1..Len(maps[1]) :
                /\ Cardinality({k \in 1..Len(dataset[1]) :
                                    dataset[1][k].UBIGEO = maps[1][i].UBIGEO}) = 1
                /\ FacilitiesWith(RegionCode(i)) = {} =>
                        \E k \in 1..Len(dataset[1]) :
                            /\ dataset[1][k].UBIGEO = maps[1][i].UBIGEO
                            /\ dataset[1][k].Frecuencia = IntV(0)
        /\ \A k \in 1..Len(dataset[1]) :
                /\ dataset[1][k].Frecuencia.t = "int"
                /\ dataset[1][k].Frecuencia.v >= 0

\* The Aggregator has run on a region with facilities and a region with none.
C2_Witness ==
    /\ dataset # None
    /\ \E i, j \in 1..Len(maps[1]) :
            /\ FacilitiesWith(RegionCode(i)) = {}
            /\ FacilitiesWith(RegionCode(j)) # {}

\* C3: the count of a region is the number of cleaned facility records whose
\* canonical code equals, as a string, the region's six-character code.
C3_CountCorrect ==
    dataset # None =>
        /\ Len(dataset[1]) = Len(maps[1])
        /\ \A i \in 1..Len(maps[1]) :
                /\ dataset[1][i].UBIGEO = maps[1][i].UBIGEO
                /\ dataset[1][i].Frecuencia = IntV(Cardinality(FacilitiesWith(RegionCode(i))))

\* The example: facilities 150101, 150101, 160101 and regions 150101,
\* 150102, 160101 give the counts 2, 0, 1.
C3_Witness ==
    /\ dataset # None
    /\ [j \in 1..Len(src_csv) |-> src_csv[j].UBIGEO.v] = <<150101, 150101, 160101>>
    /\ [i \in 1..Len(src_shp) |-> ParseInt(src_shp[i].IDDIST.v)] = <<150101, 150102, 160101>>
    /\ [k \in 1..Len(dataset[1]) |-> dataset[1][k].Frecuencia.v] = <<2, 0, 1>>

\* Two region tables hold the same values, cell types included.
SameRegions(a, b) ==
    /\ Len(a) = Len(b)
    /\ \A i \in 1..Len(a) :
            /\ a[i].index = b[i].index
            /\ a[i].UBIGEO.t = b[i].UBIGEO.t
            /\ a[i].UBIGEO.v = b[i].UBIGEO.v
            /\ a[i].geometry = b[i].geometry

\* C9: a second run of the Aggregator on the tables the first run leaves
\* behind gives the identical result, the memoized call returns that same
\* result, and the first run leaves the values of both input tables as the
\* loaders returned them.
C9_Idempotent ==
    dataset # None =>
        /\ SameRegions(maps[1], cache["load_district_shapefile"][<<>>])
        /\ df = cache_get(cache["load_hospital_data"], <<>>)
        /\ create_district_dataset_body(maps[1], df[1]).dataset = dataset[1]
        /\ create_district_dataset_body(maps[1], df[1]).maps = maps[1]
        /\ cache_get(cache["create_district_dataset"], <<df[1]>>) = dataset

\* The Aggregator has returned in a second script run, on a region table
\* with a code that loses a leading zero as an integer.
C9_Witness ==
    /\ dataset # None
    /\ frame # None
    /\ proximity_results = None
    /\ pc = "l461"
    /\ \E i \in 1..Len(maps[1]) : maps[1][i].UBIGEO = IntV(80101)
    /\ Len(df[1]) >= 2

(***************************************************************************)
(* Properties of the proximity analysis.                                   *)
(***************************************************************************)
\* The cleaned hospital records of Lima and Loreto within BufferRadius metres
\* of the point (cx, cy) of EPSG:32718; ESTE and NORTE are coordinates of
\* that frame (line 401).
HospitalsNear(cx, cy) ==
    {j \in 1..Len(df[1]) :
        /\ str_slice(df[1][j].UBIGEO, 2) \in {<<"1", "5">>, <<"1", "6">>}
        /\ (df[1][j].ESTE.v - cx) * (df[1][j].ESTE.v - cx)
            + (df[1][j].NORTE.v - cy) * (df[1][j].NORTE.v - cy)
                <= BufferRadius * BufferRadius}

\* C4: Hosp_10km of every center of Lima or Loreto is the number of cleaned
\* hospital records of those departments at most 10,000 m from the center.
C4_CountsHospitals ==
    (frame # None /\ df # None) =>
        \A i \in 1..Len(frame[1].centros_sel) :
            LET c == frame[1].centros_sel[i]
            IN  c.Hosp_10km = Cardinality(HospitalsNear(c.geometry.x1, c.geometry.y1))

\* The rows of centros_sel of department dep.
CentersOf(dep) ==
    {i \in 1..Len(frame[1].centros_sel) : frame[1].centros_sel[i].DEP = dep}

\* sel is the first center of dep, in input order, among those of least count.
FirstMin(sel, dep) ==
    /\ \E i \in CentersOf(dep) :
            /\ frame[1].centros_sel[i].index = sel.index
            /\ frame[1].centros_sel[i].Hosp_10km = sel.Hosp_10km
    /\ \A i \in CentersOf(dep) :
            /\ sel.Hosp_10km <= frame[1].centros_sel[i].Hosp_10km
            /\ frame[1].centros_sel[i].Hosp_10km = sel.Hosp_10km =>
                    sel.index <= frame[1].centros_sel[i].index

\* sel is the first center of dep, in input order, among those of greatest count.
FirstMax(sel, dep) ==
    /\ \E i \in CentersOf(dep) :
            /\ frame[1].centros_sel[i].index = sel.index
            /\ frame[1].centros_sel[i].Hosp_10km = sel.Hosp_10km
    /\ \A i \in CentersOf(dep) :
            /\ sel.Hosp_10km >= frame[1].centros_sel[i].Hosp_10km
            /\ frame[1].centros_sel[i].Hosp_10km = sel.Hosp_10km =>
                    sel.index <= frame[1].centros_sel[i].index

HasCenter(dep) == \E i \in 1..Len(CCPP[1]) : CCPP[1][i].DEP = dep

\* The script run has gone through the call of line 461.
PastProximity == pc \in {"done", "aborted"} /\ CCPP # None /\ dataset # None

\* C7: with no center for LIMA, or none for LORETO, the call of
\* proximity_analysis raises and returns no result; a result is never
\* returned for a department without centers.
C7_EmptyPartition ==
    /\ proximity_results # None => (HasCenter("LIMA") /\ HasCenter("LORETO"))
    /\ (PastProximity /\ ~(HasCenter("LIMA") /\ HasCenter("LORETO"))) =>
            /\ pc = "aborted"
            /\ error = "ValueError"
            /\ proximity_results = None

\* The call was made with centers of Lima but none of Loreto, and raised.
C7_Witness ==
    /\ PastProximity
    /\ HasCenter("LIMA")
    /\ ~HasCenter("LORETO")
    /\ error = "ValueError"

(***************************************************************************)
(* Properties of the memoization.                                          *)
(***************************************************************************)
\* The script variable that receives the result of loader f.
Loaded(f) ==
    CASE f = "load_hospital_data" -> df
      [] f = "load_district_shapefile" -> maps
      [] f = "load_population_centers" -> CCPP

\* C8: each source is downloaded at most once, and every result a loader
\* returns equals the first one it returned.
C8_LoadOnce ==
    \A f \in Loaders :
        /\ fetches[f] <= 1
        /\ Loaded(f) # None => Loaded(f) = first[f]

\* A later script run (an earlier one reached line 461) has loaded the
\* three tables after each source changed upstream.
C8_Witness ==
    /\ frame # None
    /\ pc = "l183"
    /\ df # None /\ maps # None /\ CCPP # None
    /\ load_hospital_data_body(src_csv) # df[1]
    /\ load_district_shapefile_body(src_shp) # maps[1]
    /\ load_population_centers_body(src_ccpp) # CCPP[1]
    /\ \A f \in Loaders : fetches[f] = 1

\* C10: every call of create_district_dataset and of proximity_analysis
\* returns the result of the tables passed to it.
C10_OwnArguments ==
    /\ (pc \in {"l461", "create_district_dataset"} /\ dataset # None) =>
            dataset[1] = create_district_dataset_body(maps[1], df[1]).dataset
    /\ (pc \in {"done", "proximity_analysis"} /\ proximity_results # None) =>
            /\ ~proximity_raises(CCPP[1], maps[1])
            /\ proximity_results[1] = proximity_results_of(CCPP[1], maps[1])

(***************************************************************************)
(* One script run over every region table whose codes include ones with a  *)
(* leading zero (departments).                                             *)
(***************************************************************************)
\* Rows of DISTRITOS.shp of five departments: "015101" and "016101" belong
\* to department 01, and line 84 stores them as the integers 15101, 16101.
DepartmentRows ==
    {District(<<"0", "1", "5", "1", "0", "1">>, 1, 0, 1, 0),
     District(<<"0", "1", "6", "1", "0", "1">>, 0, 1, 0, 1),
     District(<<"0", "8", "0", "1", "0", "1">>, 1, 1, 1, 1),
     District(<<"1", "5", "0", "1", "0", "1">>, 2, 0, 2, 0),
     District(<<"1", "6", "0", "1", "0", "1">>, 3, 0, 4, 1)}

DepartmentTables ==
    {t \in SeqsUpTo(DepartmentRows, MaxRegions) :
        \A i, j \in 1..Len(t) : t[i].IDDIST = t[j].IDDIST => i = j}

InitDepartments ==
    /\ pc = "l180"
    /\ \E shp \in DepartmentTables : Fresh(CsvLima, shp, CcppBoth)

SpecDepartments == InitDepartments /\ [][NextOnce]_vars

\* The canonical six-character code of a cell of the column UBIGEO.
CanonicalCode(x) == zfill(astype_str(x), 6).v

\* The code belongs to Lima ('15') or to Loreto ('16').
LimaOrLoreto(x) == SubSeq(CanonicalCode(x), 1, 2) \in {<<"1", "5">>, <<"1", "6">>}

\* The index labels of the rows of table t.
Labels(t) == {t[i].index : i \in 1..Len(t)}

\* C11: hosp_sel holds exactly the rows of the table passed to
\* proximity_analysis whose canonical six-character code begins with '15'
\* or '16': no row of another department is in it and no row of Lima or
\* Loreto is left out.
C11_DepartmentRestriction ==
    (frame # None /\ maps # None) =>
        Labels(frame[1].hosp_sel) =
            {maps[1][i].index : i \in {j \in 1..Len(maps[1]) : LimaOrLoreto(maps[1][j].UBIGEO)}}

=============================================================================
